---- MODULE Spec2Model ----
(***************************************************************************)
(* The post indexer of nsaunders/writing: scripts/index-posts.ts and its   *)
(* slug-emitting revision (src/unnamed/part_002).  The script lists the    *)
(* posts directory, reads every <dir>/index.md concurrently, splits each   *)
(* document into frontmatter and body, decodes the frontmatter against a   *)
(* schema, adds the reading time and writes the array to index.json.       *)
(***************************************************************************)
EXTENDS Integers, Sequences, FiniteSets, TLC

(***************************************************************************)
(* Bounds of the model.                                                    *)
(***************************************************************************)
\* the largest number of post directories under the posts root
MaxPosts == 2
\* the longest body text (in characters) given to readingTime on its own
MaxBodyLen == 4
\* the calendar days a timestamp text may name (0..MaxDay)
MaxDay == 3

(***************************************************************************)
(* Values.  A JavaScript value is a record [t, v]: t = "str" an ordinary   *)
(* string, "tstr" a string holding a timestamp text, "date" a Date object  *)
(* (v its time value in minutes since the epoch, NaN for an invalid Date), *)
(* "arr" an array of strings, "num" a number, "null" null.                 *)
(***************************************************************************)
Str(s) == [t |-> "str", v |-> s]
TStr(x) == [t |-> "tstr", v |-> x]
DateV(n) == [t |-> "date", v |-> n]
Arr(a) == [t |-> "arr", v |-> a]
Num(n) == [t |-> "num", v |-> n]
Null == [t |-> "null", v |-> 0]

\* the time value of an invalid Date; no timestamp of the model reaches it
NaN == -1000000

MinutesPerDay == 1440

(***************************************************************************)
(* Timestamp texts.  form "date" is YYYY-MM-DD, "noms" is                  *)
(* YYYY-MM-DDTHH:mm:ssZ, "full" is YYYY-MM-DDTHH:mm:ss.sssZ and "offset"   *)
(* is YYYY-MM-DDTHH:mm:ss.sss+01:00; day and tod (minute of the day) are   *)
(* the digits written, off the zone offset written, in minutes.            *)
(***************************************************************************)
TsText(form, day, tod) ==
    [form |-> form, day |-> day, tod |-> tod, off |-> IF form = "offset" THEN 60 ELSE 0]

TimesOfDay == {0, 1, 720}

TsTexts ==
    {TsText("date", d, 0) : d \in 0..MaxDay}
      \cup {TsText(f, d, m) : f \in {"noms", "full", "offset"}, d \in 0..MaxDay, m \in TimesOfDay}

\* new Date(value): the instant the text names
DateT_Decode(value) == value.day * MinutesPerDay + value.tod - value.off

\* the date alone, as toISOString().slice(0, 10) gives it
DateT_Encode_DateOnly(value) == TsText("date", value \div MinutesPerDay, 0)

\* Date.prototype.toISOString: always YYYY-MM-DDTHH:mm:ss.sssZ, in UTC
DateT_Encode(value) == TsText("full", value \div MinutesPerDay, value % MinutesPerDay)

\* new Date(s) for any string value: a text that is no timestamp gives an invalid Date
NewDate(val) == IF val.t = "tstr" THEN DateV(DateT_Decode(val.v)) ELSE DateV(NaN)

\* Date.prototype.toJSON, as JSON.stringify calls it: null for an invalid Date
DateToJSON(val) == IF val.v = NaN THEN Null ELSE TStr(DateT_Encode(val.v))

(***************************************************************************)
(* reading-time, as the script calls it: readingTime(content).time with    *)
(* the default options.  A text is a sequence of characters, "w" a         *)
(* character of a word, " " and "\n" word bounds.                          *)
(***************************************************************************)
Chars == {"w", " "}

Texts == UNION {[1..n -> Chars] : n \in 0..MaxBodyLen}

isWordBound(c) == c \in {" ", "\n", "\r", "\t"}

\* the words of a text: one per maximal run of characters that are no word bound
WordCount(text) ==
    Cardinality({i \in 1..Len(text) :
        /\ ~isWordBound(text[i])
        /\ (i = Len(text) \/ isWordBound(text[i + 1]))})

\* the default options.wordsPerMinute
wordsPerMinute == 200

\* Math.round of the quotient n / d, for n >= 0 and d > 0
MathRound(n, d) == (2 * n + d) \div (2 * d)

\* the .minutes of the statistics, rounded, in the place of .time
ReadingTimeMinutes(text) == MathRound(WordCount(text), wordsPerMinute)

\* a count that stops at the first word
ReadingTimeCapped(text) ==
    MathRound((IF WordCount(text) > 1 THEN 1 ELSE WordCount(text)) * 60 * 1000, wordsPerMinute)

\* the .time of the statistics: Math.round(minutes * 60 * 1000), minutes = words / wordsPerMinute
readingTime(text) == MathRound(WordCount(text) * 60 * 1000, wordsPerMinute)

(***************************************************************************)
(* gray-matter, as the script calls it: frontmatter(file) gives the data   *)
(* of the leading block between --- lines, loaded as YAML, and the text    *)
(* after it.  A document is [delim, fm, body]: delim whether it opens with *)
(* a --- block, fm the block's keys, each a YAML node [q, val] (q: the     *)
(* scalar is quoted), body the text after the block.                       *)
(***************************************************************************)
Node(q, val) == [q |-> q, val |-> val]

\* YAML load of one node: a plain scalar that is a timestamp is a Date, a quoted one a string
yamlLoad(node) ==
    IF ~node.q /\ node.val.t = "tstr" THEN NewDate(node.val) ELSE node.val

\* a parse that takes the keys at the head of the text for frontmatter, delimited or not
frontmatterWithoutDelimiter(file) ==
    [data |-> [k \in DOMAIN file.fm |-> yamlLoad(file.fm[k])], content |-> file.body]

\* matter(file): data is the YAML of the leading --- block, empty when there is none
frontmatter(file) ==
    IF file.delim
      THEN [data |-> [k \in DOMAIN file.fm |-> yamlLoad(file.fm[k])], content |-> file.body]
      ELSE [data |-> [k \in {} |-> Null], content |-> file.body]

(***************************************************************************)
(* The schema and Value.Decode.  revision 1 is scripts/index-posts.ts      *)
(* (published: DateT, a string decoded to a Date), revision 2 is           *)
(* unnamed/part_002 (published: Type.Date(), and the element has a name).  *)
(***************************************************************************)
Revisions == {1, 2}

schemaKeys == <<"title", "description", "published", "tags">>

IsString(val) == val.t \in {"str", "tstr"}

\* tags accepted as an array or as one string
PropertyCheckLooseTags(r, key, val) ==
    CASE key \in {"title", "description"} -> IsString(val)
      [] key = "published" ->
            IF r = 1 THEN IsString(val) ELSE val.t = "date" /\ val.v # NaN
      [] key = "tags" -> val.t = "arr" \/ IsString(val)

\* Value.Check of one property of the schema
PropertyCheck(r, key, val) ==
    CASE key \in {"title", "description"} -> IsString(val)
      [] key = "published" ->
            IF r = 1 THEN IsString(val) ELSE val.t = "date" /\ val.v # NaN
      [] key = "tags" -> val.t = "arr"

KeyOk(r, data, key) == key \in DOMAIN data /\ PropertyCheck(r, key, data[key])

\* a schema that does not require tags
CheckIgnoresTags(r, data) ==
    \A i \in 1..Len(schemaKeys) : schemaKeys[i] = "tags" \/ KeyOk(r, data, schemaKeys[i])

\* a schema with additionalProperties: false
CheckNoAdditionalProperties(r, data) ==
    /\ \A i \in 1..Len(schemaKeys) : KeyOk(r, data, schemaKeys[i])
    /\ DOMAIN data \subseteq {schemaKeys[i] : i \in 1..Len(schemaKeys)}

\* Value.Check(schema, data): every required key present and of its type
Check(r, data) == \A i \in 1..Len(schemaKeys) : KeyOk(r, data, schemaKeys[i])

\* the first property of the schema, whichever property failed
FirstErrorPathOfSchema(r, data) == schemaKeys[1]

\* Value.Errors(schema, data).First(): the required keys that are absent
\* come first, then the keys of the wrong type, each in the schema's order
FirstErrorPath(r, data) ==
    LET absent == {i \in 1..Len(schemaKeys) : schemaKeys[i] \notin DOMAIN data}
        bad == {i \in 1..Len(schemaKeys) : ~KeyOk(r, data, schemaKeys[i])}
        Min(S) == CHOOSE i \in S : \A j \in S : i <= j
    IN  IF absent # {} THEN schemaKeys[Min(absent)]
        ELSE IF bad # {} THEN schemaKeys[Min(bad)]
        ELSE ""

\* the error Value.Decode throws: the failing property's path and the value given
DecodeError(r, data) ==
    [kind |-> "TransformDecodeCheckError", path |-> FirstErrorPath(r, data),
     value |-> data]

\* a decode that keeps the keys of the schema and drops every other key
ValueDecodeClean(r, data) ==
    [k \in DOMAIN data \cap {"title", "description", "published", "tags"} |->
        IF r = 1 /\ k = "published" THEN NewDate(data[k]) ELSE data[k]]

\* TransformDecode: revision 1 replaces published by new Date(published);
\* revision 2 has no transform and returns the value as it is
ValueDecode(r, data) ==
    IF r = 1
      THEN [k \in DOMAIN data |-> IF k = "published" THEN NewDate(data[k]) ELSE data[k]]
      ELSE data

\* a spread in which the keys written first win
SpreadKeepsFirst(a, b) ==
    [k \in DOMAIN a \cup DOMAIN b |-> IF k \in DOMAIN a THEN a[k] ELSE b[k]]

\* object spread {...a, ...b}: the keys of both, b's value where both have the key
Spread(a, b) ==
    [k \in DOMAIN a \cup DOMAIN b |-> IF k \in DOMAIN b THEN b[k] ELSE a[k]]

\* the element built for one post (the callback of postMarkdownFiles.map)
PostOf(r, name, file) ==
    LET fmr == frontmatter(file)
        decoded == ValueDecode(r, fmr.data)
        rt == [readingTime |-> Num(readingTime(fmr.content))]
    IN  IF r = 1 THEN Spread(decoded, rt)
        ELSE Spread(Spread([name |-> Str(name)], decoded), rt)

\* a serialisation that writes the tags last to first
JSONOfPostReversedTags(post) ==
    [k \in DOMAIN post |->
        IF post[k].t = "date" THEN DateToJSON(post[k])
        ELSE IF post[k].t = "arr"
               THEN Arr([i \in 1..Len(post[k].v) |-> post[k].v[Len(post[k].v) + 1 - i]])
               ELSE post[k]]

\* JSON.stringify of one element: a Date is written by its toJSON
JSONOfPost(post) ==
    [k \in DOMAIN post |-> IF post[k].t = "date" THEN DateToJSON(post[k]) ELSE post[k]]

JSONStringify(posts) == [i \in 1..Len(posts) |-> JSONOfPost(posts[i])]

(***************************************************************************)
(* The posts directory.  The documents the model draws from follow the     *)
(* frontmatter of the repository's posts.                                  *)
(***************************************************************************)
\* quoted published in the full form: a string (accepted by revision 1 only)
DocHello ==
    [delim |-> TRUE,
     fm |-> [title |-> Node(TRUE, Str("Hello")), description |-> Node(TRUE, Str("World")),
             published |-> Node(TRUE, TStr(TsText("full", 1, 0))),
             tags |-> Node(FALSE, Arr(<<"CSS">>))],
     body |-> <<"w", " ", "w">>]

\* quoted date-only published: a string (accepted by revision 1 only); no word in the body
DocQuotedDate ==
    [delim |-> TRUE,
     fm |-> [title |-> Node(FALSE, Str("Quoted")), description |-> Node(FALSE, Str("Date")),
             published |-> Node(TRUE, TStr(TsText("date", 2, 0))),
             tags |-> Node(FALSE, Arr(<<"CSS", "React">>))],
     body |-> <<" ">>]

\* posts/function-aschild-polymorphic-components/index.md: published: 2023-06-19,
\* a plain YAML timestamp, loaded as a Date (accepted by revision 2 only)
DocAsChild ==
    [delim |-> TRUE,
     fm |-> [title |-> Node(FALSE, Str("Function asChild")),
             description |-> Node(FALSE, Str("How I use a classic React design pattern")),
             published |-> Node(FALSE, TStr(TsText("date", 0, 0))),
             tags |-> Node(FALSE, Arr(<<"TypeScript", "React">>))],
     body |-> <<"w", " ", "w", " ", "w">>]

\* posts/cascade-perils/index.md: a plain full timestamp and two keys outside the schema
DocCascade ==
    [delim |-> TRUE,
     fm |-> [title |-> Node(FALSE, Str("The perils of the cascade")),
             description |-> Node(FALSE, Str("The cascade in CSS")),
             image_src |-> Node(FALSE, Str("assets/images/cover.webp")),
             image_alt |-> Node(FALSE, Str("A person being washed down")),
             published |-> Node(FALSE, TStr(TsText("full", 2, 720))),
             tags |-> Node(FALSE, Arr(<<"CSS">>))],
     body |-> <<"w">>]

\* a post whose frontmatter has no tags
DocNoTags ==
    [delim |-> TRUE,
     fm |-> [title |-> Node(TRUE, Str("Untagged")), description |-> Node(TRUE, Str("World")),
             published |-> Node(TRUE, TStr(TsText("full", 1, 0)))],
     body |-> <<"w", " ", "w">>]

\* a post whose tags are one string
DocTagsString ==
    [delim |-> TRUE,
     fm |-> [title |-> Node(FALSE, Str("One tag")), description |-> Node(FALSE, Str("World")),
             published |-> Node(FALSE, TStr(TsText("full", 1, 0))),
             tags |-> Node(FALSE, Str("CSS"))],
     body |-> <<"w">>]

\* a post whose frontmatter has keys called name and readingTime of its own
\* (a plain timestamp: accepted by revision 2 only)
DocOverride ==
    [delim |-> TRUE,
     fm |-> [title |-> Node(FALSE, Str("Override")), description |-> Node(FALSE, Str("World")),
             name |-> Node(FALSE, Str("custom-name")),
             readingTime |-> Node(FALSE, Num(5)),
             published |-> Node(FALSE, TStr(TsText("noms", 1, 720))),
             tags |-> Node(FALSE, Arr(<<"React", "CSS">>))],
     body |-> <<"w", " ", "w">>]

\* a post whose published is a string that is no timestamp, and a key outside the
\* schema (a string: accepted by revision 1 only)
DocBadDate ==
    [delim |-> TRUE,
     fm |-> [title |-> Node(FALSE, Str("Soon")), description |-> Node(FALSE, Str("World")),
             image_src |-> Node(FALSE, Str("assets/images/soon.webp")),
             published |-> Node(FALSE, Str("soon")),
             tags |-> Node(FALSE, Arr(<<"CSS">>))],
     body |-> <<"w">>]

\* a post whose frontmatter has a readingTime of its own (a quoted timestamp: accepted
\* by revision 1 only)
DocOwnReadingTime ==
    [delim |-> TRUE,
     fm |-> [title |-> Node(FALSE, Str("Slow read")), description |-> Node(FALSE, Str("World")),
             readingTime |-> Node(FALSE, Num(1)),
             published |-> Node(TRUE, TStr(TsText("full", 3, 1))),
             tags |-> Node(FALSE, Arr(<<"TypeScript">>))],
     body |-> <<"w", " ", "w", "w">>]

\* a document that does not open with a --- block: the lines that look like
\* frontmatter are part of its text
DocNoFrontmatter ==
    [delim |-> FALSE,
     fm |-> [title |-> Node(TRUE, Str("Plain")), description |-> Node(TRUE, Str("World")),
             published |-> Node(TRUE, TStr(TsText("full", 1, 0))),
             tags |-> Node(FALSE, Arr(<<"CSS">>))],
     body |-> <<"w", " ", "w">>]

EmptyDoc == [delim |-> FALSE, fm |-> [k \in {} |-> Node(FALSE, Null)], body |-> <<>>]

\* the documents a run of revision r is given: those its schema accepts, and some it
\* rejects (a key absent, a key of the wrong type, no frontmatter, a published of the
\* kind the other revision takes)
DocPool(r) ==
    IF r = 1
      THEN {DocHello, DocQuotedDate, DocBadDate, DocOwnReadingTime,
            DocNoTags, DocTagsString, DocNoFrontmatter, DocAsChild}
      ELSE {DocAsChild, DocCascade, DocOverride,
            DocNoTags, DocTagsString, DocNoFrontmatter, DocHello}

\* what <dir>/index.md is: a readable document, or no file at all
Files(r) ==
    {[st |-> "ok", doc |-> d] : d \in DocPool(r)} \cup {[st |-> "missing", doc |-> EmptyDoc]}

SlugNames == <<"post-a", "post-b", "post-c", "post-d">>

Slugs(n) == {SlugNames[i] : i \in 1..n}

NoData == [k \in {} |-> Null]

NoError == [kind |-> "none", path |-> "", value |-> NoData]

\* an index.json left by an earlier build
OldIndex == <<[title |-> Str("stale")]>>

VARIABLES
    rev,               \* the revision of the script that runs
    root,              \* the posts directory: post directory name -> its index.md
    indexJson,         \* posts/index.json: [exists, content]
    pc,                \* where the run is: start, reading, mapping, done, failed
    postsDirListing,   \* the entries fs.readdir returned
    postDirectories,   \* the names of the directories among them
    reads,             \* the state of each fs.readFile promise
    completion,        \* the reads fulfilled so far, in the order they completed
    postMarkdownFiles, \* the array Promise.all resolved to
    posts,             \* the elements built so far by postMarkdownFiles.map
    error,             \* the error the run threw
    writes,            \* the writes of index.json this run has made
    outOfOrder,        \* this run had a read complete before one dispatched earlier
    run,               \* the number of the run
    results,           \* the outcome of each finished run
    indexBefore,       \* index.json as it was when this run started
    dtText,            \* DateT on its own: the string given to Decode
    dtDate,            \* the Date that Decode returned
    dtOut,             \* the string that Encode returned for that Date
    dtPc,              \* input, decoded, encoded
    rtA, rtB,          \* the map callback on its own: the bodies of two posts
    rtTimeA, rtTimeB,  \* the readingTime of the two elements
    rtPc,              \* input, done
    bProps,            \* the polymorphic Button on its own: the props it is given
    bRef,              \* the ref it is given
    bOut,              \* what it returned
    bPc,               \* input, rendered
    sbProps,           \* the sandbox Button on its own: the props App gives it
    sbPending,         \* the element React renders next
    sbCalls,           \* the calls of Button so far
    sbBranches         \* the branch each call of Button took

indexerVars == <<rev, root, indexJson, pc, postsDirListing, postDirectories, reads,
                 completion, postMarkdownFiles, posts, error, writes, outOfOrder, run, results,
                 indexBefore>>

dateVars == <<dtText, dtDate, dtOut, dtPc>>

readingVars == <<rtA, rtB, rtTimeA, rtTimeB, rtPc>>

buttonVars == <<bProps, bRef, bOut, bPc>>

sandboxVars == <<sbProps, sbPending, sbCalls, sbBranches>>

vars == <<indexerVars, dateVars, readingVars, buttonVars, sandboxVars>>

\* DateT is not being exercised on its own
DateIdle == dtText = TsText("full", 0, 0) /\ dtDate = 0 /\ dtOut = TsText("full", 0, 0) /\ dtPc = "idle"

\* the map callback is not being exercised on its own
ReadingIdle == rtA = <<>> /\ rtB = <<>> /\ rtTimeA = 0 /\ rtTimeB = 0 /\ rtPc = "idle"

\* the polymorphic Button is not being exercised on its own
ButtonIdle == bProps = <<>> /\ bRef = "none" /\ bOut = <<>> /\ bPc = "idle"

\* the sandbox Button is not being exercised on its own
SandboxIdle == sbProps = <<>> /\ sbPending = <<>> /\ sbCalls = 0 /\ sbBranches = <<>>

\* the entries of the posts directory: its post directories, and index.json once it exists
Entries ==
    {[name |-> d, isDirectory |-> TRUE] : d \in DOMAIN root}
      \cup (IF indexJson.exists THEN {[name |-> "index.json", isDirectory |-> FALSE]} ELSE {})

\* the orders fs.readdir may return a set of entries in: any
Listings(S) ==
    {l \in [1..Cardinality(S) -> S] : \A i, j \in 1..Cardinality(S) : i # j => l[i] # l[j]}

\* every entry taken for a directory
DirectoryNamesUnfiltered(listing) == [i \in 1..Len(listing) |-> listing[i].name]

\* the directories listed last come first
DirectoryNamesReversed(listing) ==
    LET dirs == SelectSeq(listing, LAMBDA x : x.isDirectory)
    IN  [i \in 1..Len(dirs) |-> dirs[Len(dirs) + 1 - i].name]

\* postsDirListing.filter(x => x.isDirectory()).map(x => x.name)
DirectoryNames(listing) ==
    LET dirs == SelectSeq(listing, LAMBDA x : x.isDirectory)
    IN  [i \in 1..Len(dirs) |-> dirs[i].name]

Init ==
    /\ rev \in Revisions
    /\ \E n \in 0..MaxPosts : root \in [Slugs(n) -> Files(rev)]
    /\ indexJson \in {[exists |-> FALSE, content |-> <<>>], [exists |-> TRUE, content |-> OldIndex]}
    /\ pc = "start"
    /\ postsDirListing = <<>>
    /\ postDirectories = <<>>
    /\ reads = <<>>
    /\ completion = <<>>
    /\ postMarkdownFiles = <<>>
    /\ posts = <<>>
    /\ error = NoError
    /\ writes = 0
    /\ outOfOrder = FALSE
    /\ run = 1
    /\ results = <<>>
    /\ indexBefore = indexJson
    /\ DateIdle
    /\ ReadingIdle
    /\ ButtonIdle
    /\ SandboxIdle

\* an outcome that reports every run as successful
OutcomeAlwaysOk(ok, err, content) == [ok |-> TRUE, error |-> err, index |-> content]

\* the run ends: its outcome is what the invoker sees
Outcome(ok, err, content) == [ok |-> ok, error |-> err, index |-> content]

\* lines 21-31: fs.readdir, the filter, and one fs.readFile dispatched per directory
Readdir ==
    /\ pc = "start"
    /\ \E listing \in Listings(Entries) :
          /\ postsDirListing' = listing
          /\ postDirectories' = DirectoryNames(listing)
          /\ reads' = [i \in 1..Len(DirectoryNames(listing)) |-> "pending"]
    /\ pc' = "reading"
    /\ UNCHANGED <<rev, root, indexJson, completion, postMarkdownFiles, posts, error, writes,
                   outOfOrder, run, results, indexBefore>>
    /\ UNCHANGED <<dateVars, readingVars, buttonVars, sandboxVars>>

\* the error of a rejected fs.readFile: it names the path that could not be read
ReadError(dir) == [kind |-> "ENOENT", path |-> dir, value |-> NoData]

\* a read that swallows its failure and gives an empty text
ReadOutcomeSwallowed(file) == "fulfilled"

\* how fs.readFile settles: rejected when the file is missing
ReadOutcome(file) == IF file.st = "ok" THEN "fulfilled" ELSE "rejected"

\* what lies at <dir>/index.md: nothing, when dir is no directory
FileAt(dir) ==
    IF dir \in DOMAIN root THEN root[dir] ELSE [st |-> "missing", doc |-> EmptyDoc]

\* a read that is dispatched again after it was rejected, the run going on
ReadFileRetried(i) ==
    /\ pc = "reading"
    /\ i \in DOMAIN reads
    /\ reads[i] \in {"pending", "rejected"}
    /\ IF ReadOutcome(FileAt(postDirectories[i])) = "fulfilled"
         THEN /\ reads' = [reads EXCEPT ![i] = "fulfilled"]
              /\ completion' = Append(completion, i)
         ELSE /\ reads' = [reads EXCEPT ![i] = IF reads[i] = "pending" THEN "rejected" ELSE "pending"]
              /\ UNCHANGED completion
    /\ UNCHANGED <<rev, root, indexJson, pc, postsDirListing, postDirectories, postMarkdownFiles,
                   posts, error, writes, outOfOrder, run, results, indexBefore>>
    /\ UNCHANGED <<dateVars, readingVars, buttonVars, sandboxVars>>

\* one fs.readFile settles; a rejection rejects Promise.all and the run throws
ReadFile(i) ==
    /\ pc = "reading"
    /\ i \in DOMAIN reads
    /\ reads[i] = "pending"
    /\ IF ReadOutcome(FileAt(postDirectories[i])) = "fulfilled"
         THEN /\ reads' = [reads EXCEPT ![i] = "fulfilled"]
              /\ completion' = Append(completion, i)
              /\ outOfOrder' = (outOfOrder \/ \E j \in 1..(i - 1) : reads[j] = "pending")
              /\ UNCHANGED <<pc, error, results>>
         ELSE /\ reads' = [reads EXCEPT ![i] = "rejected"]
              /\ pc' = "failed"
              /\ error' = ReadError(postDirectories[i])
              /\ results' = Append(results, Outcome(FALSE, ReadError(postDirectories[i]), <<>>))
              /\ UNCHANGED <<completion, outOfOrder>>
    /\ UNCHANGED <<rev, root, indexJson, postsDirListing, postDirectories, postMarkdownFiles,
                   posts, writes, run, indexBefore>>
    /\ UNCHANGED <<dateVars, readingVars, buttonVars, sandboxVars>>

\* the array a fulfilled read contributes: the content, with the directory in revision 2
ReadResult(r, dir) ==
    IF r = 1 THEN [file |-> FileAt(dir).doc] ELSE [name |-> dir, file |-> FileAt(dir).doc]

\* the values collected in the order in which the reads completed
PromiseAllValuesByCompletion(r, dirs, order) ==
    [i \in 1..Len(dirs) |-> ReadResult(r, dirs[order[i]])]

\* the value of Promise.all: the i-th value is that of the i-th promise given
PromiseAllValues(r, dirs, order) == [i \in 1..Len(dirs) |-> ReadResult(r, dirs[i])]

\* Promise.race in the place of Promise.all: the first read to be fulfilled is enough
ReadsSettledAny == reads = <<>> \/ \E i \in DOMAIN reads : reads[i] = "fulfilled"

\* a wait that gives up on the reads that do not complete
ReadsSettledOrHung == \A i \in DOMAIN reads : reads[i] \in {"fulfilled", "hung"}

\* Promise.all is fulfilled when every promise given to it is
ReadsSettled == \A i \in DOMAIN reads : reads[i] = "fulfilled"

\* await Promise.all(...): every read is fulfilled
PromiseAll ==
    /\ pc = "reading"
    /\ ReadsSettled
    /\ postMarkdownFiles' = PromiseAllValues(rev, postDirectories, completion)
    /\ completion' = <<>>
    /\ pc' = "mapping"
    /\ UNCHANGED <<rev, root, indexJson, postsDirListing, postDirectories, reads, posts, error,
                   writes, outOfOrder, run, results, indexBefore>>
    /\ UNCHANGED <<dateVars, readingVars, buttonVars, sandboxVars>>

\* a failed write that leaves no error behind
WriteErrorSwallowed == NoError

\* a map that notes the error of an invalid post and goes on to the next post
MapPostKeepsGoing ==
    /\ pc = "mapping"
    /\ Len(posts) < Len(postMarkdownFiles)
    /\ LET e == postMarkdownFiles[Len(posts) + 1]
           data == frontmatter(e.file).data
       IN  IF Check(rev, data)
             THEN /\ posts' = Append(posts, PostOf(rev, IF rev = 1 THEN "" ELSE e.name, e.file))
                  /\ UNCHANGED error
             ELSE /\ posts' = Append(posts, data)
                  /\ error' = DecodeError(rev, data)
    /\ UNCHANGED <<rev, root, indexJson, pc, postsDirListing, postDirectories, reads,
                   completion, postMarkdownFiles, writes, outOfOrder, run, indexBefore, results>>
    /\ UNCHANGED <<dateVars, readingVars, buttonVars, sandboxVars>>

\* the callback of postMarkdownFiles.map on the next element: Value.Decode throws on a
\* frontmatter the schema rejects
MapPost ==
    /\ pc = "mapping"
    /\ Len(posts) < Len(postMarkdownFiles)
    /\ LET e == postMarkdownFiles[Len(posts) + 1]
           data == frontmatter(e.file).data
       IN  IF Check(rev, data)
             THEN /\ posts' = Append(posts, PostOf(rev, IF rev = 1 THEN "" ELSE e.name, e.file))
                  /\ UNCHANGED <<pc, error, results>>
             ELSE /\ pc' = "failed"
                  /\ error' = DecodeError(rev, data)
                  /\ results' = Append(results, Outcome(FALSE, DecodeError(rev, data), <<>>))
                  /\ UNCHANGED posts
    /\ UNCHANGED <<rev, root, indexJson, postsDirListing, postDirectories, reads, completion,
                   postMarkdownFiles, writes, outOfOrder, run, indexBefore>>
    /\ UNCHANGED <<dateVars, readingVars, buttonVars, sandboxVars>>

WriteError == [kind |-> "WriteError", path |-> "index.json", value |-> NoData]

\* await Bun.write(index.json, JSON.stringify(posts, null, 2)): the file is replaced, or
\* the write fails and the run throws
BunWrite ==
    /\ pc = "mapping"
    /\ Len(posts) = Len(postMarkdownFiles)
    /\ \/ /\ indexJson' = [exists |-> TRUE, content |-> JSONStringify(posts)]
          /\ writes' = writes + 1
          /\ pc' = "done"
          /\ results' = Append(results, Outcome(TRUE, NoError, JSONStringify(posts)))
          /\ UNCHANGED error
       \/ /\ pc' = "failed"
          /\ error' = WriteError
          /\ results' = Append(results, Outcome(FALSE, WriteError, <<>>))
          /\ UNCHANGED <<indexJson, writes>>
    /\ UNCHANGED <<rev, root, postsDirListing, postDirectories, reads, completion,
                   postMarkdownFiles, posts, outOfOrder, run, indexBefore>>
    /\ UNCHANGED <<dateVars, readingVars, buttonVars, sandboxVars>>

\* the script is run again, on the posts directory as the first run left it
Rerun ==
    /\ pc \in {"done", "failed"}
    /\ run < 2
    /\ run' = run + 1
    /\ pc' = "start"
    /\ postsDirListing' = <<>>
    /\ postDirectories' = <<>>
    /\ reads' = <<>>
    /\ completion' = <<>>
    /\ postMarkdownFiles' = <<>>
    /\ posts' = <<>>
    /\ error' = NoError
    /\ writes' = 0
    /\ outOfOrder' = FALSE
    /\ indexBefore' = indexJson
    /\ UNCHANGED <<rev, root, indexJson, results>>
    /\ UNCHANGED <<dateVars, readingVars, buttonVars, sandboxVars>>

Next ==
    \/ Readdir
    \/ \E i \in 1..MaxPosts : ReadFile(i)
    \/ PromiseAll
    \/ MapPost
    \/ BunWrite
    \/ Rerun

Spec == Init /\ [][Next]_vars

(***************************************************************************)
(* DateT on its own: a string is decoded, and the Date encoded again.      *)
(***************************************************************************)
IndexerIdle ==
    /\ rev = 1
    /\ root = [d \in {} |-> [st |-> "missing", doc |-> EmptyDoc]]
    /\ indexJson = [exists |-> FALSE, content |-> <<>>]
    /\ pc = "idle"
    /\ postsDirListing = <<>>
    /\ postDirectories = <<>>
    /\ reads = <<>>
    /\ completion = <<>>
    /\ postMarkdownFiles = <<>>
    /\ posts = <<>>
    /\ error = NoError
    /\ writes = 0
    /\ outOfOrder = FALSE
    /\ run = 1
    /\ results = <<>>
    /\ indexBefore = indexJson

InitDate ==
    /\ IndexerIdle
    /\ ReadingIdle
    /\ ButtonIdle
    /\ SandboxIdle
    /\ dtText \in TsTexts
    /\ dtDate = 0
    /\ dtOut = TsText("full", 0, 0)
    /\ dtPc = "input"

\* .Decode(value => new Date(value))
Decode ==
    /\ dtPc = "input"
    /\ dtDate' = DateT_Decode(dtText)
    /\ dtPc' = "decoded"
    /\ UNCHANGED <<dtText, dtOut>>
    /\ UNCHANGED <<indexerVars, readingVars, buttonVars, sandboxVars>>

\* .Encode(value => value.toISOString())
Encode ==
    /\ dtPc = "decoded"
    /\ dtOut' = DateT_Encode(dtDate)
    /\ dtPc' = "encoded"
    /\ UNCHANGED <<dtText, dtDate>>
    /\ UNCHANGED <<indexerVars, readingVars, buttonVars, sandboxVars>>

NextDate ==
    \/ Decode
    \/ Encode

SpecDate == InitDate /\ [][NextDate]_vars

(***************************************************************************)
(* The map callback on its own: two posts with the frontmatter of DocHello *)
(* that differ in their bodies alone.                                      *)
(***************************************************************************)
InitReading ==
    /\ IndexerIdle
    /\ DateIdle
    /\ ButtonIdle
    /\ SandboxIdle
    /\ rtA \in Texts
    /\ rtB \in Texts
    /\ rtTimeA = 0
    /\ rtTimeB = 0
    /\ rtPc = "input"

Measure ==
    /\ rtPc = "input"
    /\ rtTimeA' = PostOf(1, "", [DocHello EXCEPT !.body = rtA]).readingTime.v
    /\ rtTimeB' = PostOf(1, "", [DocHello EXCEPT !.body = rtB]).readingTime.v
    /\ rtPc' = "done"
    /\ UNCHANGED <<rtA, rtB>>
    /\ UNCHANGED <<indexerVars, dateVars, buttonVars, sandboxVars>>

NextReading == Measure

SpecReading == InitReading /\ [][NextReading]_vars

(***************************************************************************)
(* One run in which a read may hang: the promise of fs.readFile is never   *)
(* settled.  The steps of the script are taken whenever they can be: the   *)
(* event loop resumes an await as soon as its promise settles.             *)
(***************************************************************************)
\* the documents of the runs with hanging reads
FilesRun ==
    {[st |-> "ok", doc |-> d] : d \in {DocHello, DocAsChild, DocNoTags}}
      \cup {[st |-> "missing", doc |-> EmptyDoc]}

InitRun ==
    /\ Init
    /\ ~indexJson.exists
    /\ \A d \in DOMAIN root : root[d] \in FilesRun

\* the fs.readFile of the i-th directory hangs: its promise stays pending for ever
Hang(i) ==
    /\ pc = "reading"
    /\ i \in DOMAIN reads
    /\ reads[i] = "pending"
    /\ reads' = [reads EXCEPT ![i] = "hung"]
    /\ UNCHANGED <<rev, root, indexJson, pc, postsDirListing, postDirectories, completion,
                   postMarkdownFiles, posts, error, writes, outOfOrder, run, results,
                   indexBefore>>
    /\ UNCHANGED <<dateVars, readingVars, buttonVars, sandboxVars>>

NextRun ==
    \/ Readdir
    \/ \E i \in 1..MaxPosts : ReadFile(i)
    \/ \E i \in 1..MaxPosts : Hang(i)
    \/ PromiseAll
    \/ MapPost
    \/ BunWrite

SpecRun ==
    /\ InitRun
    /\ [][NextRun]_vars
    /\ WF_vars(Readdir)
    /\ \A i \in 1..MaxPosts : WF_vars(ReadFile(i))
    /\ WF_vars(PromiseAll)
    /\ WF_vars(MapPost)
    /\ WF_vars(BunWrite)

(***************************************************************************)
(* The polymorphic Button of unnamed/part_007 on its own.  Props are a     *)
(* function from the names of the props given to their values; a class     *)
(* name is the sequence of its tokens, a token the tuple of its parts, and *)
(* <<>> the empty class name, a falsy argument of clsx.  An element is     *)
(* [owner, tag, props, ref, children], owner the function whose JSX        *)
(* created it.                                                             *)
(***************************************************************************)
ButtonKeys == {"children", "className", "disabled", "size", "variant", "type", "onClick"}

\* the children a caller gives: a render function (of an anchor, of a button of its
\* own), a text, an element
ButtonChildren ==
    {[t |-> "function", tag |-> "a"], [t |-> "function", tag |-> "button"],
     [t |-> "string", v |-> "Save"], [t |-> "element", tag |-> "span"]}

ButtonPropValues ==
    [children : ButtonChildren, className : {<<<<"mine">>>>}, disabled : {"true", "false"},
     size : {"small", "large"}, variant : {"primary", "danger"}, type : {"submit"},
     onClick : {"handler"}]

\* the props objects a caller can write: any of the props, each present or not
ButtonPropsGiven ==
    {[k \in present |-> full[k]] : present \in SUBSET ButtonKeys, full \in ButtonPropValues}

NoChildren == [t |-> "undefined"]

\* typeof x
TypeOf(x) ==
    CASE x.t = "function" -> "function"
      [] x.t \in {"string", "number", "boolean"} -> x.t
      [] x.t \in {"null", "element", "array", "memo"} -> "object"
      [] OTHER -> "undefined"

\* clsx(...args): the truthy arguments joined, in order
RECURSIVE cx(_)
cx(args) == IF args = <<>> THEN <<>> ELSE Head(args) \o cx(Tail(args))

\* { small: "sm", medium: "md", large: "lg" }[size]
SizeClass(size) ==
    CASE size = "small" -> "sm" [] size = "medium" -> "md" [] size = "large" -> "lg"

\* lines 31-38: the destructuring of the props, with the defaults of size and variant
PropOr(props, key, default) == IF key \in DOMAIN props THEN props[key] ELSE default

\* a destructuring that leaves className and disabled among the remaining props
restPropsWithForwarded(props) ==
    [k \in DOMAIN props \ {"children", "size", "variant"} |-> props[k]]

\* ...restProps: the props that were not destructured by name
restPropsOf(props) ==
    [k \in DOMAIN props \ {"children", "className", "disabled", "size", "variant"} |-> props[k]]

\* lines 41-50: the forward props
forwardProps(props) ==
    LET disabled == PropOr(props, "disabled", "undefined")
    IN  [className |->
            cx(<< PropOr(props, "className", <<>>),
                  <<<<"btn">>>>,
                  <<<<"btn", PropOr(props, "variant", "secondary")>>>>,
                  <<<<"btn", SizeClass(PropOr(props, "size", "medium"))>>>>,
                  IF disabled = "true" THEN <<<<"disabled">>>> ELSE <<>> >>),
         disabled |-> disabled]

\* children(forwardProps): the render function of the caller returns its own element
\* with the props it was given
CallChildren(children, given) ==
    [owner |-> "children", tag |-> children.tag, props |-> given, ref |-> "none",
     children |-> NoChildren]

\* lines 52-58: what Button returns
Button(props, ref) ==
    LET children == PropOr(props, "children", NoChildren)
    IN  IF TypeOf(children) = "function"
          THEN CallChildren(children, forwardProps(props))
          ELSE [owner |-> "Button", tag |-> "button",
                props |-> Spread(forwardProps(props), restPropsOf(props)),
                ref |-> ref, children |-> children]

InitButton ==
    /\ IndexerIdle
    /\ DateIdle
    /\ ReadingIdle
    /\ SandboxIdle
    /\ bProps \in ButtonPropsGiven
    /\ bRef \in {"none", "buttonRef"}
    /\ bOut = <<>>
    /\ bPc = "input"

\* React renders <Button {...bProps} ref={bRef} />
RenderButton ==
    /\ bPc = "input"
    /\ bOut' = Button(bProps, bRef)
    /\ bPc' = "rendered"
    /\ UNCHANGED <<bProps, bRef>>
    /\ UNCHANGED <<indexerVars, dateVars, readingVars, sandboxVars>>

NextButton == RenderButton

SpecButton == InitButton /\ [][NextButton]_vars

(***************************************************************************)
(* The Button of the basic sandbox (sandboxes/basic/src/App.tsx) on its    *)
(* own, rendered by React: the element a component returns is rendered     *)
(* next, until a host element is reached.  A value is a record whose t is  *)
(* its kind: undefined, null, boolean, string, number, element, array (the *)
(* children of a fragment or several children), function, memo (the object *)
(* memo() returns).                                                        *)
(***************************************************************************)
MaxRenders == 4

\* the children App can give; JSX children are of the type ReactNode or a component
SandboxChildren ==
    {[t |-> "undefined"], [t |-> "null"],
     [t |-> "boolean", v |-> "true"], [t |-> "boolean", v |-> "false"],
     [t |-> "string", v |-> ""], [t |-> "string", v |-> "Save"],
     [t |-> "number", v |-> "0"], [t |-> "number", v |-> "1"],
     [t |-> "element", tag |-> "span"], [t |-> "array"],
     [t |-> "function", id |-> "anchor"], [t |-> "memo", id |-> "counter"]}

SandboxPropValues ==
    [children : SandboxChildren, type : {"button", "submit"}, onClick : {"handler"}]

SandboxPropsGiven ==
    {[k \in present |-> full[k]] :
        present \in SUBSET {"children", "type", "onClick"}, full \in SandboxPropValues}

\* !!x
Truthy(x) ==
    CASE x.t \in {"undefined", "null"} -> FALSE
      [] x.t = "boolean" -> x.v = "true"
      [] x.t = "string" -> x.v # ""
      [] x.t = "number" -> x.v # "0"
      [] OTHER -> TRUE

isValidElement(x) == x.t = "element"

\* Symbol.iterator in x, for an object x
isIterable(x) == x.t = "array"

\* a test that takes objects alone for render functions
isRenderFunctionObjectsOnly(x) ==
    Truthy(x) /\ TypeOf(x) = "object" /\ ~isValidElement(x) /\ ~isIterable(x)

isRenderFunction(x) ==
    \/ TypeOf(x) = "function"
    \/ Truthy(x) /\ TypeOf(x) = "object" /\ ~isValidElement(x) /\ ~isIterable(x)

\* lines 62-72: the style Button gives to the component
ButtonStyle == "button style"

\* lines 79-86: the render function Button writes for its own button element; it closes
\* over buttonProps and children
InnerRenderFunction(buttonProps, children) ==
    [t |-> "function", id |-> "inner", buttonProps |-> buttonProps, children |-> children]

\* what the component returns when React calls it with the props: the button element of
\* Button, or the element of the caller's own component
CallComponent(fn, props) ==
    IF fn.id = "inner"
      THEN [type |-> "host", tag |-> "button",
            props |-> Spread([style |-> props["style"]], fn.buttonProps),
            children |-> fn.children]
      ELSE [type |-> "host", tag |-> (IF fn.id = "anchor" THEN "a" ELSE "div"),
            props |-> [style |-> props["style"]], children |-> NoChildren]

InitSandbox ==
    /\ IndexerIdle
    /\ DateIdle
    /\ ReadingIdle
    /\ ButtonIdle
    /\ sbProps \in SandboxPropsGiven
    /\ sbPending = [type |-> "Button", props |-> sbProps]
    /\ sbCalls = 0
    /\ sbBranches = <<>>

\* lines 57-89: React calls Button with the props of the pending Button element
RenderSandboxButton ==
    /\ sbPending.type = "Button"
    /\ sbCalls < MaxRenders
    /\ LET children == PropOr(sbPending.props, "children", [t |-> "undefined"])
           buttonProps == [k \in DOMAIN sbPending.props \ {"children"} |-> sbPending.props[k]]
       IN  IF isRenderFunction(children)
             THEN /\ sbPending' = [type |-> "component", fn |-> children,
                                   props |-> [style |-> ButtonStyle]]
                  /\ sbBranches' = Append(sbBranches, "render function")
             ELSE /\ sbPending' = [type |-> "Button",
                                   props |-> [children |-> InnerRenderFunction(buttonProps, children)]]
                  /\ sbBranches' = Append(sbBranches, "nested Button")
    /\ sbCalls' = sbCalls + 1
    /\ UNCHANGED sbProps
    /\ UNCHANGED <<indexerVars, dateVars, readingVars, buttonVars>>

\* React calls the component Button returned an element of
RenderComponent ==
    /\ sbPending.type = "component"
    /\ sbPending' = CallComponent(sbPending.fn, sbPending.props)
    /\ UNCHANGED <<sbProps, sbCalls, sbBranches>>
    /\ UNCHANGED <<indexerVars, dateVars, readingVars, buttonVars>>

NextSandbox ==
    \/ RenderSandboxButton
    \/ RenderComponent

SpecSandbox == InitSandbox /\ [][NextSandbox]_vars

(***************************************************************************)
(* Properties of the indexer.                                              *)
(***************************************************************************)
\* the frontmatter data of the index.md under a directory
DataOf(dir) == frontmatter(root[dir].doc).data

\* the kinds of value the running revision's schema requires under a key: a string
\* (whatever it holds) for title and description, and for published in revision 1
RequiredKinds(key) ==
    CASE key \in {"title", "description"} -> {"str", "tstr"}
      [] key = "published" -> (IF rev = 1 THEN {"str", "tstr"} ELSE {"date"})
      [] key = "tags" -> {"arr"}

\* the key is absent from the data, or its value is not of the required kind
FieldFails(data, key) == key \notin DOMAIN data \/ data[key].t \notin RequiredKinds(key)

\* the directory holds a readable index.md whose frontmatter the schema accepts
ValidPost(dir) ==
    /\ root[dir].st = "ok"
    /\ \A k \in {"title", "description", "published", "tags"} : ~FieldFails(DataOf(dir), k)

AllValid == \A d \in DOMAIN root : ValidPost(d)

\* position of an entry name in the listing fs.readdir returned
PositionOf(name) == CHOOSE i \in 1..Len(postsDirListing) : postsDirListing[i].name = name

\* postDirectories lists every directory of the root once, in the order of the listing
EnumeratesRoot ==
    /\ Len(postDirectories) = Cardinality(DOMAIN root)
    /\ {postDirectories[i] : i \in 1..Len(postDirectories)} = DOMAIN root
    /\ \A i, j \in 1..Len(postDirectories) :
          i < j => PositionOf(postDirectories[i]) < PositionOf(postDirectories[j])

\* the element describes the post under dir: it has that document's title and tags
Describes(element, dir) ==
    /\ element["title"] = root[dir].doc.fm["title"].val
    /\ element["tags"] = root[dir].doc.fm["tags"].val
    /\ element["readingTime"].t = "num"

\* C1: when every subdirectory holds a valid index.md, a run never fails on a read or a
\* validation, and the index it writes has exactly one element per subdirectory, the
\* i-th element describing the i-th subdirectory of the directory enumeration.
C1_OnePerDirectoryInOrder ==
    AllValid =>
      /\ pc = "failed" => error.kind = "WriteError"
      /\ pc = "done" =>
            /\ EnumeratesRoot
            /\ Len(indexJson.content) = Cardinality(DOMAIN root)
            /\ \A i \in 1..Len(indexJson.content) :
                  Describes(indexJson.content[i], postDirectories[i])

C1_Witness ==
    /\ pc = "done"
    /\ AllValid
    /\ Len(indexJson.content) = 2
    /\ postDirectories = <<"post-b", "post-a">>
    /\ root["post-a"] # root["post-b"]

\* C2: every read is dispatched before any read settles, and whatever the order in which
\* the reads complete, the array given to the map, and the index written from it, are in
\* the order of the directory enumeration.
C2_OrderIsEnumerationOrder ==
    /\ pc = "reading" => DOMAIN reads = 1..Len(postDirectories)
    /\ pc \in {"mapping", "done"} =>
          /\ Len(postMarkdownFiles) = Len(postDirectories)
          /\ \A i \in 1..Len(postDirectories) :
                postMarkdownFiles[i].file = root[postDirectories[i]].doc
    /\ pc = "done" =>
          \A i \in 1..Len(postDirectories) :
              indexJson.content[i]["title"] = root[postDirectories[i]].doc.fm["title"].val

C2_Witness ==
    /\ pc = "done"
    /\ outOfOrder
    /\ Len(indexJson.content) = 2
    /\ indexJson.content[1]["title"] # indexJson.content[2]["title"]

\* C3: a run writes index.json at most once, and the write happens only when every read
\* has been fulfilled and every post's frontmatter has been validated; until then
\* index.json is as the run found it.
C3_WriteOnceAfterReadsAndValidation ==
    /\ writes <= 1
    /\ writes = 0 => indexJson = indexBefore
    /\ writes = 1 =>
          /\ pc = "done"
          /\ Len(reads) = Len(postDirectories)
          /\ \A i \in 1..Len(postDirectories) :
                reads[i] = "fulfilled" /\ ValidPost(postDirectories[i])
          /\ Len(posts) = Len(postDirectories)

C3_Witness ==
    /\ writes = 1
    /\ Len(posts) = 2
    /\ indexBefore.exists
    /\ indexJson # indexBefore

\* a directory whose index.md is read but whose frontmatter the schema rejects
InvalidPost(dir) == root[dir].st = "ok" /\ ~ValidPost(dir)

AllReadable == \A d \in DOMAIN root : root[d].st = "ok"

\* C4: when every index.md is readable and the frontmatter of one of them fails
\* validation, the run that ends has failed with the error of Value.Decode, it has
\* written nothing, and index.json is as it was before the run, however many of the
\* other posts are valid.
C4_InvalidPostAbortsRun ==
    (AllReadable /\ \E d \in DOMAIN root : InvalidPost(d)) =>
      /\ pc # "done"
      /\ writes = 0
      /\ indexJson = indexBefore
      /\ pc = "failed" => error.kind = "TransformDecodeCheckError"

C4_Witness ==
    /\ pc = "failed"
    /\ error.kind = "TransformDecodeCheckError"
    /\ error.path = "tags"
    /\ Len(posts) = 1
    /\ \E d \in DOMAIN root : ValidPost(d)
    /\ indexJson = [exists |-> TRUE, content |-> OldIndex]

\* C5: when the index.md of an enumerated subdirectory is missing, the run that ends has
\* failed with the read error of a missing file, and at no moment of the run is
\* index.json written: it stays as it was before the run.
C5_MissingFileAbortsRun ==
    (\E d \in DOMAIN root : root[d].st # "ok") =>
      /\ pc # "done"
      /\ writes = 0
      /\ indexJson = indexBefore
      /\ pc = "failed" =>
            /\ error.kind = "ENOENT"
            /\ error.path \in {d \in DOMAIN root : root[d].st # "ok"}

C5_Witness ==
    /\ pc = "failed"
    /\ error.kind = "ENOENT"
    /\ \E i \in DOMAIN reads : reads[i] = "fulfilled"
    /\ \E d \in DOMAIN root : ValidPost(d)

\* C6 as claimed: decoding published and encoding the Date again gives the input string
\* back, for every accepted input, the date-only inputs included.
C6_RoundTripExact == dtPc = "encoded" => dtOut = dtText

\* C6 as amended: decoding published and encoding the Date again gives the text
\* YYYY-MM-DDTHH:mm:ss.sssZ of the same instant in UTC; that is the input string exactly
\* when the input is already written in that form, and a date-only input comes back with
\* the time 00:00:00.000Z added.
C6_RoundTripCanonical ==
    dtPc = "encoded" =>
      /\ dtOut.form = "full"
      /\ dtOut.off = 0
      /\ dtOut.tod \in 0..(MinutesPerDay - 1)
      /\ dtOut.day * MinutesPerDay + dtOut.tod
            = dtText.day * MinutesPerDay + dtText.tod - dtText.off
      /\ (dtOut = dtText) <=> (dtText.form = "full")
      /\ dtText.form = "date" => dtOut = [dtText EXCEPT !.form = "full"]

C6_Witness ==
    /\ dtPc = "encoded"
    /\ dtText.form = "date"
    /\ dtText.day = 1
    /\ dtOut = [form |-> "full", day |-> 1, tod |-> 0, off |-> 0]

\* C7 as claimed: the readingTime of an element is positive, also for a body without
\* words, and of two bodies the one with more words has the strictly larger readingTime.
C7_PositiveAndIncreasing ==
    rtPc = "done" =>
      /\ rtTimeA > 0
      /\ WordCount(rtA) < WordCount(rtB) => rtTimeA < rtTimeB

\* a text has a word when one of its characters is no word bound
HasWord(text) == \E i \in 1..Len(text) : text[i] = "w"

\* C7 as amended: the readingTime of an element is never negative, it is zero exactly
\* when the body has no word and positive otherwise, and of two bodies the one with more
\* words has the strictly larger readingTime.
C7_NonNegativeAndIncreasing ==
    rtPc = "done" =>
      /\ rtTimeA >= 0
      /\ (rtTimeA > 0) <=> HasWord(rtA)
      /\ WordCount(rtA) < WordCount(rtB) => rtTimeA < rtTimeB
      /\ WordCount(rtA) = WordCount(rtB) => rtTimeA = rtTimeB

C7_Witness ==
    /\ rtPc = "done"
    /\ rtA = <<>>
    /\ rtTimeA = 0
    /\ rtB = <<"w", " ", "w">>
    /\ rtTimeB > rtTimeA

\* the body of the post the i-th element was built from
BodyOf(i) == root[postDirectories[i]].doc.body

Mentions(err) ==
    {err.path} \cup {err.value[k].v : k \in {x \in DOMAIN err.value : err.value[x].t = "str"}}

\* the run failed in Value.Decode
DecodeFailed == pc = "failed" /\ error.kind = "TransformDecodeCheckError"

\* the directory of the post the map callback was working on
CurrentDir == postDirectories[Len(posts) + 1]

C10_RerunWritesSameIndex ==
    (Len(results) = 2 /\ results[1].ok /\ results[2].ok) =>
        results[1].index = results[2].index

\* the posts root has no post directory (it is empty, or holds index.json alone)
NoDirectories == DOMAIN root = {}

\* C11: on a posts root without post directories (empty, or holding non-directory
\* entries alone) no read is dispatched and nothing is validated, the run can always
\* go on to the write, it fails only if the write itself fails, and the index it writes
\* is the empty array.
C11_EmptyRootWritesEmptyArray ==
    NoDirectories =>
      /\ pc # "start" => postDirectories = <<>> /\ reads = <<>>
      /\ pc = "reading" => ENABLED PromiseAll
      /\ pc = "mapping" => ENABLED BunWrite
      /\ pc = "failed" => error.kind = "WriteError"
      /\ pc = "done" => indexJson = [exists |-> TRUE, content |-> <<>>]

C11_Witness ==
    /\ NoDirectories
    /\ pc = "done"
    /\ indexBefore = [exists |-> TRUE, content |-> OldIndex]
    /\ postsDirListing = <<[name |-> "index.json", isDirectory |-> FALSE]>>
    /\ indexJson.content = <<>>

\* C12: the index a successful run leaves depends on the posts alone: the second run,
\* which finds the index.json of the first where the first found another one or none,
\* leaves the very content the first run left over the same posts.
C12_IndexIndependentOfOldIndex ==
    (run = 2 /\ pc = "done" /\ results[1].ok) =>
      /\ indexBefore.content = results[1].index
      /\ indexJson.content = results[1].index

HasExtraKey(dir) ==
    DOMAIN DataOf(dir) \ {"title", "description", "published", "tags"} # {}

\* C14: validation rejects a post only for one of its required keys: a post whose
\* required keys are all valid is never the one Value.Decode throws on, whatever other
\* keys its frontmatter has, and it gets its element in the index.
C14_ExtraKeysTolerated ==
    /\ DecodeFailed => ~ValidPost(CurrentDir)
    /\ pc = "done" =>
          \A i \in 1..Len(postDirectories) :
              HasExtraKey(postDirectories[i]) =>
                  indexJson.content[i]["title"] = DataOf(postDirectories[i])["title"]

C14_Witness ==
    /\ pc = "done"
    /\ rev = 2
    /\ Len(posts) = 2
    /\ root[postDirectories[2]].doc = DocCascade
    /\ HasExtraKey(postDirectories[2])

\* the positions of the listing that hold a directory
DirectoryPositions == {i \in 1..Len(postsDirListing) : postsDirListing[i].isDirectory}

\* C15: the entries of the posts root that are no directory (the index.json of an
\* earlier run among them) are ignored: no read is dispatched for them, one read is
\* dispatched per directory, and the written index has one element per directory.
C15_NonDirectoriesIgnored ==
    pc # "start" =>
      /\ \A i \in 1..Len(postDirectories) :
            /\ postDirectories[i] # "index.json"
            /\ postDirectories[i] \in DOMAIN root
      /\ Len(postDirectories) = Cardinality(DirectoryPositions)
      /\ DOMAIN reads = 1..Cardinality(DirectoryPositions)
      /\ pc = "done" => Len(indexJson.content) = Cardinality(DirectoryPositions)

C15_Witness ==
    /\ pc = "done"
    /\ Len(postsDirListing) = 3
    /\ postsDirListing[2] = [name |-> "index.json", isDirectory |-> FALSE]
    /\ Len(indexJson.content) = 2

\* C16: in the revision that emits a slug, the name of every element is the name of
\* the post directory the element was built from, whatever the frontmatter holds, a
\* name key of its own included.
C16_NameIsDirectoryName ==
    rev = 2 =>
      /\ \A i \in 1..Len(posts) : posts[i]["name"] = Str(postDirectories[i])
      /\ pc = "done" =>
            \A i \in 1..Len(indexJson.content) :
                indexJson.content[i]["name"] = Str(postDirectories[i])

\* C17: the title, the description and the tags of every element of the written index
\* are the values of the frontmatter of its post, the tags in the order they were
\* written; a root whose one post is the Hello post (tags CSS) yields exactly one
\* element, with that title, those tags and a positive reading time.
C17_FieldsEqualFrontmatter ==
    pc = "done" =>
      /\ \A i \in 1..Len(indexJson.content) :
            LET element == indexJson.content[i]
                data == DataOf(postDirectories[i])
            IN  /\ element["title"] = data["title"]
                /\ element["description"] = data["description"]
                /\ element["tags"] = data["tags"]
      /\ (Len(postDirectories) = 1 /\ root[postDirectories[1]].doc = DocHello) =>
            /\ Len(indexJson.content) = 1
            /\ indexJson.content[1]["title"] = Str("Hello")
            /\ indexJson.content[1]["tags"] = Arr(<<"CSS">>)
            /\ indexJson.content[1]["readingTime"].t = "num"
            /\ indexJson.content[1]["readingTime"].v > 0

\* a written index of two posts, the Hello post and one whose two tags differ
C17_Witness ==
    /\ pc = "done"
    /\ Len(indexJson.content) = 2
    /\ root[postDirectories[1]].doc = DocHello
    /\ indexJson.content[1]["tags"] = Arr(<<"CSS">>)
    /\ indexJson.content[2]["tags"] = Arr(<<"CSS", "React">>)

\* the keys every element of the index has in the running revision
ElementKeys ==
    {schemaKeys[k] : k \in 1..Len(schemaKeys)} \cup {"readingTime"}
       \cup (IF rev = 2 THEN {"name"} ELSE {})

\* an ISO-8601 date-time string, as Date.prototype.toISOString writes it
IsISODateTime(val) == val.t = "tstr" /\ val.v.form = "full" /\ val.v.off = 0

\* C18: every element of the written index has the keys title and description
\* (strings), published (an ISO-8601 date-time string), tags (an array) and readingTime
\* (a number), and name (a string) in the revision that emits the slug.
C18_ElementShape ==
    pc = "done" =>
      \A i \in 1..Len(indexJson.content) :
          LET element == indexJson.content[i]
          IN  /\ ElementKeys \subseteq DOMAIN element
              /\ IsString(element["title"])
              /\ IsString(element["description"])
              /\ element["tags"].t = "arr"
              /\ element["readingTime"].t = "num"
              /\ rev = 2 => IsString(element["name"])
              /\ IsISODateTime(element["published"])

\* the run has ended: its outcome (the exit status and what was thrown) is recorded
RunEnded == pc \in {"done", "failed"}

\* C19: a run that has ended exits zero exactly when every read, every validation and
\* the write succeeded; it exits non-zero, with the error thrown, when a read or a
\* validation failed; and a run over a root with an unreadable or an invalid post never
\* ends in success.
C19_ExitStatus ==
    /\ ~(AllReadable /\ AllValid) => pc # "done"
    /\ RunEnded =>
          /\ Len(results) = run
          /\ results[run].ok <=> (AllReadable /\ AllValid /\ writes = 1)
          /\ results[run].ok <=> pc = "done"
          /\ ~results[run].ok => results[run].error.kind # "none" /\ results[run].error = error
          /\ ~AllReadable => results[run].error.kind = "ENOENT"
          /\ (AllReadable /\ ~AllValid) =>
                results[run].error.kind = "TransformDecodeCheckError"
    /\ ~RunEnded => Len(results) = run - 1

\* a second run that fails on a validation, after the posts before the invalid one were
\* mapped
C19_Witness ==
    /\ run = 2
    /\ pc = "failed"
    /\ ~results[2].ok
    /\ results[2].error.kind = "TransformDecodeCheckError"
    /\ Len(posts) = 1
    /\ AllReadable

\* C20: a write of index.json that fails ends the run in failure with the WriteError as
\* the error the invoker sees; the run is not recorded as successful, and a run whose
\* reads and validations all succeeded fails with that error and no other.
C20_WriteErrorSurfaced ==
    /\ error.kind = "WriteError" =>
          /\ pc = "failed"
          /\ Len(results) = run
          /\ ~results[run].ok
          /\ results[run].error.kind = "WriteError"
          /\ results[run].error = error
          /\ writes = 0
    /\ (pc = "failed" /\ AllReadable /\ AllValid) => error.kind = "WriteError"
    /\ (pc = "mapping" /\ Len(posts) = Len(postMarkdownFiles)) => ENABLED BunWrite

\* the write of an index of two mapped posts has failed
C20_Witness ==
    /\ pc = "failed"
    /\ error.kind = "WriteError"
    /\ Len(posts) = 2
    /\ ~results[run].ok
    /\ indexJson = indexBefore

\* C21: within one run one read is dispatched per post directory and none is dispatched
\* again: a read that has settled stays as it settled until the run is over, a rejected
\* read is never pending again, and the step that rejects a read ends the run in failure
\* with the error of that read.
C21_ReadAtMostOnce ==
    [][ /\ run' = run =>
              \A i \in DOMAIN reads :
                  reads[i] # "pending" => i \in DOMAIN reads' /\ reads'[i] = reads[i]
        /\ \A i \in DOMAIN reads' :
              reads'[i] = "rejected" =>
                  /\ pc' = "failed"
                  /\ error'.kind = "ENOENT"
                  /\ error'.path = postDirectories'[i]
        /\ \A i, j \in DOMAIN postDirectories' :
              i # j => postDirectories'[i] # postDirectories'[j]
        /\ DOMAIN reads' = DOMAIN postDirectories' ]_vars

\* a read was rejected while another was still pending: the run has failed
C21_Witness ==
    /\ pc = "failed"
    /\ error.kind = "ENOENT"
    /\ \E i \in DOMAIN reads : reads[i] = "rejected"
    /\ \E i \in DOMAIN reads : reads[i] = "pending"

\* a dispatched read that never completes
SomeReadHung == \E i \in DOMAIN reads : reads[i] = "hung"

\* C22: a run all of whose reads complete comes to an end, with the index written once
\* or in failure with nothing written; from the moment a read hangs the run never
\* validates a post and never writes: it waits in Promise.all, unless another read
\* fails it.
C22_TerminatesUnlessReadHangs ==
    /\ <>(RunEnded \/ SomeReadHung)
    /\ [](RunEnded => \/ pc = "done" /\ writes = 1
                      \/ pc = "failed" /\ writes = 0)
    /\ [](SomeReadHung => [](/\ pc \in {"reading", "failed"}
                             /\ postMarkdownFiles = <<>>
                             /\ posts = <<>>
                             /\ writes = 0
                             /\ pc = "failed" => error.kind = "ENOENT"))

\* one read hangs after the other was fulfilled: the run waits
C22_Witness ==
    /\ pc = "reading"
    /\ Len(reads) = 2
    /\ reads[1] = "fulfilled"
    /\ reads[2] = "hung"
    /\ ~ENABLED NextRun

\* the map callback has run on some post, or is about to: a frontmatter was or can be
\* parsed and validated
ValidationReached == pc \in {"mapping", "done"} \/ posts # <<>> \/ DecodeFailed

\* C23: no frontmatter is parsed or validated before every read was fulfilled; so a
\* root with an unreadable post and a post of invalid frontmatter never fails with the
\* error of a validation, in whatever order the two are enumerated and whichever read
\* settles first: when the run has failed, it has failed with the read error.
C23_ReadsBeforeValidation ==
    /\ ValidationReached =>
          /\ \A i \in DOMAIN reads : reads[i] = "fulfilled"
          /\ DOMAIN reads = DOMAIN postDirectories
          /\ Len(postMarkdownFiles) = Len(postDirectories)
    /\ ((\E d \in DOMAIN root : root[d].st # "ok") /\ (\E d \in DOMAIN root : InvalidPost(d))) =>
          /\ ~ValidationReached
          /\ postMarkdownFiles = <<>>
          /\ pc = "failed" => error.kind = "ENOENT" /\ root[error.path].st # "ok"

\* the invalid post is enumerated first and its read was fulfilled before the read of
\* the unreadable post was rejected
C23_Witness ==
    /\ pc = "failed"
    /\ error.kind = "ENOENT"
    /\ Len(postDirectories) = 2
    /\ InvalidPost(postDirectories[1])
    /\ reads[1] = "fulfilled"
    /\ reads[2] = "rejected"
    /\ posts = <<>>

\* C24: the posts are validated one after the other in the order of the enumeration,
\* and the first invalid one ends the run: the error thrown is the error of the first
\* invalid post of the enumeration, every post before it was mapped, and no post after
\* it is validated.
C24_FirstInvalidPostStopsValidation ==
    /\ \A i \in 1..Len(posts) :
          /\ ValidPost(postDirectories[i])
          /\ posts[i] = PostOf(rev, IF rev = 1 THEN "" ELSE postDirectories[i],
                               root[postDirectories[i]].doc)
    /\ error.kind = "TransformDecodeCheckError" =>
          /\ pc = "failed"
          /\ Len(posts) < Len(postDirectories)
          /\ InvalidPost(CurrentDir)
          /\ error = DecodeError(rev, DataOf(CurrentDir))
          /\ writes = 0

\* two invalid posts whose errors differ: the run stopped at the first
C24_Witness ==
    /\ DecodeFailed
    /\ Len(postDirectories) = 2
    /\ posts = <<>>
    /\ InvalidPost(postDirectories[2])
    /\ DecodeError(rev, DataOf(postDirectories[2])) # error
    /\ error.path = "published"

\* the reading time computed from the body of the index.md under a directory
ComputedReadingTime(dir) == Num(readingTime(frontmatter(root[dir].doc).content))

\* the frontmatter under the directory has a readingTime of its own, which is not the
\* computed one
OwnReadingTime(dir) ==
    /\ "readingTime" \in DOMAIN DataOf(dir)
    /\ DataOf(dir)["readingTime"] # ComputedReadingTime(dir)

\* C25: the readingTime of every element, mapped or written, is the value computed from
\* the body of its post, in both revisions, also when the frontmatter of the post has a
\* readingTime key of its own.
C25_ReadingTimeIsComputed ==
    /\ \A i \in 1..Len(posts) : posts[i]["readingTime"] = ComputedReadingTime(postDirectories[i])
    /\ pc = "done" =>
          \A i \in 1..Len(indexJson.content) :
              indexJson.content[i]["readingTime"] = ComputedReadingTime(postDirectories[i])

\* revision 1 has written the element of a post whose frontmatter says readingTime: 1
C25_Witness ==
    /\ pc = "done"
    /\ rev = 1
    /\ Len(indexJson.content) = 2
    /\ OwnReadingTime(postDirectories[2])
    /\ DataOf(postDirectories[2])["readingTime"] = Num(1)
    /\ indexJson.content[2]["readingTime"] = Num(600)

\* the keys of the frontmatter under dir that are none of the schema's
ExtraKeys(dir) == DOMAIN DataOf(dir) \ {"title", "description", "published", "tags"}

Undelimited(dir) == root[dir].st = "ok" /\ ~root[dir].doc.delim

\* C27: a document with no leading --- block parses to empty data, which the schema of
\* either revision rejects; a run over a root with such a document never ends in
\* success and writes nothing, no element is ever built for the document, and the
\* validation that fails on it reports the first required key, title, and the empty
\* data.
C27_NoFrontmatterRejected ==
    /\ \A d \in DOMAIN root :
          Undelimited(d) => DataOf(d) = NoData /\ ~Check(rev, DataOf(d)) /\ InvalidPost(d)
    /\ (\E d \in DOMAIN root : Undelimited(d)) =>
          /\ pc # "done"
          /\ writes = 0
          /\ indexJson = indexBefore
    /\ \A i \in 1..Len(posts) : ~Undelimited(postDirectories[i])
    /\ (DecodeFailed /\ Undelimited(CurrentDir)) =>
          /\ error.path = "title"
          /\ error.value = NoData

\* the valid post enumerated first was mapped, and validation failed on the document
\* without frontmatter
C27_Witness ==
    /\ DecodeFailed
    /\ Len(posts) = 1
    /\ Undelimited(CurrentDir)
    /\ root[CurrentDir].doc = DocNoFrontmatter
    /\ error.value = NoData
    /\ indexJson = [exists |-> TRUE, content |-> OldIndex]

\* the tokens of a class name
ClassTokens(className) == {className[i] : i \in 1..Len(className)}

\* the class name and the disabled of the caller are in the forward props given: the
\* class name as one token next to those of Button, disabled as it was given, with the
\* token disabled exactly when it is true
MergedIntoForwardProps(given) ==
    /\ {"className", "disabled"} \subseteq DOMAIN given
    /\ <<"btn">> \in ClassTokens(given["className"])
    /\ "className" \in DOMAIN bProps =>
          ClassTokens(bProps["className"]) \subseteq ClassTokens(given["className"])
    /\ given["disabled"] = PropOr(bProps, "disabled", "undefined")
    /\ <<"disabled">> \in ClassTokens(given["className"]) <=> PropOr(bProps, "disabled", "undefined") = "true"

\* C28: when children is a function, Button returns what the call of children on the
\* forward props (className and disabled, nothing else) returns, and creates no button
\* element of its own; otherwise it returns a button element with the forward props,
\* then every remaining prop with the value the caller gave, the ref and the children;
\* in both cases the className and the disabled of the caller are merged into the
\* forward props and no remaining prop replaces them.
C28_ButtonBranches ==
    bPc = "rendered" =>
      IF "children" \in DOMAIN bProps /\ bProps["children"].t = "function"
        THEN /\ bOut = CallChildren(bProps["children"], bOut.props)
             /\ bOut.owner # "Button"
             /\ DOMAIN bOut.props = {"className", "disabled"}
             /\ MergedIntoForwardProps(bOut.props)
        ELSE /\ bOut.owner = "Button"
             /\ bOut.tag = "button"
             /\ bOut.ref = bRef
             /\ bOut.children = PropOr(bProps, "children", NoChildren)
             /\ \A k \in DOMAIN bProps \cap {"type", "onClick"} :
                   k \in DOMAIN bOut.props /\ bOut.props[k] = bProps[k]
             /\ DOMAIN bOut.props = {"className", "disabled"} \cup (DOMAIN bProps \cap {"type", "onClick"})
             /\ MergedIntoForwardProps(bOut.props)

\* a button element was rendered for a caller that gave a class name, disabled, a
\* remaining prop and a ref
C28_Witness ==
    /\ bPc = "rendered"
    /\ bOut.owner = "Button"
    /\ bRef = "buttonRef"
    /\ {"className", "disabled", "type", "variant"} \subseteq DOMAIN bProps
    /\ bProps["disabled"] = "true"
    /\ bOut.props["className"] = <<<<"mine">>, <<"btn">>, <<"btn", "danger">>, <<"btn", "md">>, <<"disabled">>>>

\* the children App gave to the Button of the sandbox
TopChildren == PropOr(sbProps, "children", [t |-> "undefined"])

\* children that are content: a text, a number, an element, the children of a fragment,
\* nothing
IsContent(x) ==
    x.t \in {"string", "number", "boolean", "null", "undefined", "element", "array"}

\* C29: when the children given to the sandbox Button are content and no render
\* function, Button is called exactly twice: the first call returns a Button element
\* whose one prop is a render function for children, the second call, on that element,
\* takes the render-function branch, and the render function then returns the button
\* element with the content as its children; no third call is ever made, and the
\* render never stops before the button element is reached.
C29_RecursionEndsAtDepthTwo ==
    IsContent(TopChildren) =>
      /\ sbCalls <= 2
      /\ sbCalls >= 1 => sbBranches[1] = "nested Button"
      /\ sbCalls = 1 =>
            /\ sbPending.type = "Button"
            /\ DOMAIN sbPending.props = {"children"}
            /\ sbPending.props["children"].t = "function"
      /\ sbCalls = 2 =>
            /\ sbBranches = <<"nested Button", "render function">>
            /\ sbPending.type \in {"component", "host"}
      /\ sbPending.type = "host" =>
            /\ sbCalls = 2
            /\ sbPending.tag = "button"
            /\ sbPending.children = TopChildren
      /\ sbPending.type # "host" => ENABLED NextSandbox

\* the button element was reached in two calls for the children of a fragment
C29_Witness ==
    /\ sbPending.type = "host"
    /\ sbPending.tag = "button"
    /\ sbCalls = 2
    /\ TopChildren.t = "array"
    /\ "type" \in DOMAIN sbPending.props

====
